---- MODULE Spec2Model ----
(***************************************************************************)
(* The completion pipeline of sgpt: Handler.handle, the response cache     *)
(* wrapped around Handler.get_completion, the streaming loop of            *)
(* get_completion with its function-call recursion, and the module-level   *)
(* additional_kwargs dictionary (src/sgpt/handlers/handler.py).            *)
(*                                                                         *)
(* One process issues up to MaxRequests requests, one after the other.     *)
(* A request is either replayed from the cache or opens a vendor stream;   *)
(* while a stream is open the engine waits for the next chunk, and at that *)
(* point a chunk arrives, the stream ends, or the user presses Ctrl-C.     *)
(***************************************************************************)
EXTENDS Integers, Sequences, FiniteSets, TLC

VARIABLES
    pc,                 \* "idle" | "streaming": where the process is
    req,                \* the request being served (NoRequest when idle)
    messages,           \* the live message list of the request (mutated in place)
    stack,              \* open get_completion frames, outermost first
    fragments,          \* fragments yielded to the consumer so far
    executed,           \* functions the dispatcher invoked in this request
    cache,              \* Handler.cache: entries in insertion order
    additional_kwargs,  \* the module-level dict passed to every completion()
    calls,              \* every completion() call made by the process
    chat_store,         \* the Chat Store: chat id -> persisted transcript
    log,                \* one record per finished request
    proc                \* the sgpt process: where main() is, and what it did

vars == <<pc, req, messages, stack, fragments, executed, cache,
          additional_kwargs, calls, chat_store, log, proc>>

----------------------------------------------------------------------------
(* Bounds of the model *)

MaxRequests == 2
MaxDepth == 2
CACHE_LENGTH == 1
MaxDeltas == 3

----------------------------------------------------------------------------
(* Configuration and fixed data *)

\* DefaultRoles (role names); the three that switch functions off are
\* SHELL, CODE and DESCRIBE_SHELL.
DEFAULT_ROLE == "ShellGPT"
SHELL_ROLE == "Shell Command Generator"
CODE_ROLE == "Code Generator"
DESCRIBE_SHELL_ROLE == "Shell Command Descriptor"
Roles == {DEFAULT_ROLE, SHELL_ROLE, CODE_ROLE, DESCRIBE_SHELL_ROLE}

Prompts == {"hello"}

\* --chat ids; NoChat is an invocation without --chat (DefaultHandler).
NoChat == ""
ChatIds == {"c1"}
Models == {"gpt-4o"}
Temperatures == {0}
TopPs == {1}

\* functions argument of handle(): None, or the list of schemas.
None == <<>>
FunctionSchemas == <<"list_dir">>
FunctionArgs == {None, FunctionSchemas}

\* cfg.get("SHOW_FUNCTIONS_OUTPUT") == "true"
SHOW_FUNCTIONS_OUTPUT == FALSE

\* The name use_litellm read at handler.py:163.  Its only assignment
\* (handler.py:14) is commented out and nothing else in the module binds it.
use_litellm_bound == FALSE


----------------------------------------------------------------------------
(* Messages and the fingerprint *)

Message(role, content) ==
    [role |-> role, content |-> content, name |-> "", function_call |-> <<>>]

\* The assistant message appended by handle_function_call (lines 107-113).
FunctionCallMessage(name, arguments) ==
    [role |-> "assistant", content |-> "", name |-> "",
     function_call |-> <<name, arguments>>]

\* The function-role message appended by handle_function_call (line 125).
FunctionResultMessage(name, result) ==
    [role |-> "function", content |-> result, name |-> name,
     function_call |-> <<>>]

\* The text piped on stdin in the model; it ends with a newline, as the
\* output of a command does.
PipedText == "print(1)\n"

\* prompt.strip() (handler.py:197) on the texts of the model: the piped text
\* is the only one with white space at an end.
Strip(text) == IF text = PipedText THEN "print(1)" ELSE text

\* role.role: the system prompt text of a role.
RoleText(role) == "You are " \o role

\* make_messages of the one-shot handler: the system message of the role,
\* then the user prompt.
make_messages(role, prompt) ==
    <<Message("system", RoleText(role)), Message("user", prompt)>>

\* The messages a chat invocation sends: the stored transcript followed by
\* the new user prompt; a chat with nothing stored starts like a one-shot
\* request.  Without --chat: make_messages.
MessagesFor(store, chat, role, prompt) ==
    IF chat = NoChat \/ store[chat] = <<>>
    THEN make_messages(role, prompt)
    ELSE Append(store[chat], Message("user", prompt))

\* The cache key: every argument of get_completion except caching.
Fingerprint(model, temperature, top_p, msgs, functions) ==
    <<model, temperature, top_p, msgs, functions>>

----------------------------------------------------------------------------
(* The response cache (Cache, wrapped around get_completion by @cache) *)

CacheHas(c, key) == \E i \in DOMAIN c : c[i].key = key

CacheGet(c, key) == c[CHOOSE i \in DOMAIN c : c[i].key = key].value

\* the eviction keeping the oldest entries
CacheEvict_KeepsOldest(c) ==
    IF Len(c) > CACHE_LENGTH THEN SubSeq(c, 1, CACHE_LENGTH) ELSE c

\* Remove the oldest-inserted entries until within CACHE_LENGTH.
CacheEvict(c) ==
    IF Len(c) > CACHE_LENGTH
    THEN SubSeq(c, Len(c) - CACHE_LENGTH + 1, Len(c))
    ELSE c

CacheCommit(c, key, value) ==
    CacheEvict(Append(c, [key |-> key, value |-> value]))

\* What the wrapper does when the wrapped generator is exhausted: with
\* caching on it commits the accumulated fragments, with caching off it
\* touches nothing.  An exception leaves the cache as it was.
CacheAfter(c, caching, key, value, outcome) ==
    IF caching /\ outcome = "returned" THEN CacheCommit(c, key, value) ELSE c

----------------------------------------------------------------------------
(* The vendor: what a completion() call can stream back *)

Delta(content, tool_calls, finish_reason) ==
    [content |-> content, tool_calls |-> tool_calls,
     finish_reason |-> finish_reason]

ToolCall(name, arguments) == [name |-> name, arguments |-> arguments]

EmptyStream == <<>>

TextStream ==
    <<Delta("Hi", <<>>, ""), Delta(" there", <<>>, ""), Delta("", <<>>, "stop")>>

\* name and arguments split across chunks
CallStream ==
    <<Delta("", <<ToolCall("list_", "")>>, ""),
      Delta("", <<ToolCall("dir", "{\"path\":")>>, ""),
      Delta("", <<ToolCall("", " \".\"}")>>, ""),
      Delta("", <<>>, "tool_calls")>>

\* the whole call and the finish reason in one chunk
CompactCallStream ==
    <<Delta("", <<ToolCall("list_dir", "{\"path\": \".\"}")>>, "tool_calls")>>

\* arguments that are not JSON
BadArgumentsStream ==
    <<Delta("", <<ToolCall("list_dir", "{\"path\":")>>, "tool_calls")>>

\* a function that is not registered
UnknownFunctionStream ==
    <<Delta("", <<ToolCall("rm_rf", "{\"path\": \".\"}")>>, "tool_calls")>>

VendorStreams ==
    {EmptyStream, TextStream, CallStream, CompactCallStream,
     BadArgumentsStream, UnknownFunctionStream}

EndsInFunctionCall(chunks) ==
    \E i \in DOMAIN chunks : chunks[i].finish_reason = "tool_calls"

\* The streams the vendor may answer with at recursion depth d (the depth
\* of the frame being opened); at MaxDepth the model stops the recursion.
StreamsAt(d) ==
    IF d < MaxDepth THEN VendorStreams
    ELSE {s \in VendorStreams : ~EndsInFunctionCall(s)}

----------------------------------------------------------------------------
(* The function dispatcher *)

RegisteredFunctions == {"list_dir", "dir"}

\* json.loads(arguments) succeeds
IsValidJSON(arguments) == arguments \in {"{}", "{\"path\": \".\"}"}

\* get_function(name)(**dict_args)
FunctionResult(name, arguments) == "result of " \o name

----------------------------------------------------------------------------
(* The completion engine: Handler.get_completion *)

\* lines 137-141: the three roles that switch the functions off
EffectiveFunctions(role, functions) ==
    IF role = SHELL_ROLE \/ role = CODE_ROLE \/ role = DESCRIBE_SHELL_ROLE
    THEN None
    ELSE functions

\* The module-level dict after import (lines 68, 74).  An empty field
\* stands for an absent key.
NoKwargs == [tool_choice |-> "", tools |-> None, parallel_tool_calls |-> ""]

\* lines 143-146: the dict is updated in place, and only when functions is
\* truthy.
KwargsFor(kwargs, functions) ==
    IF functions # None
    THEN [tool_choice |-> "auto", tools |-> functions,
          parallel_tool_calls |-> "False"]
    ELSE kwargs

\* lines 148-155: one completion() call, as the vendor sees it
VendorCall(n, role, msgs, kwargs, depth) ==
    [request |-> n, role |-> role, messages |-> msgs, tools |-> kwargs.tools,
     depth |-> depth]

\* A get_completion frame: its response stream, how many chunks it has
\* consumed, the accumulated function-call name and arguments, its
\* functions argument, and whether the response is "open", "exhausted" or
\* "closed".
Frame(chunks, functions) ==
    [chunks |-> chunks, pos |-> 0, name |-> "", arguments |-> "",
     functions |-> functions, response |-> "open"]

\* lines 165-170, for the tool-call deltas of one chunk in order
RECURSIVE Accumulate(_, _, _)
Accumulate(name, arguments, tool_calls) ==
    IF tool_calls = <<>> THEN [name |-> name, arguments |-> arguments]
    ELSE LET tc == Head(tool_calls)
         IN Accumulate(IF tc.name # "" THEN tc.name ELSE name,
                       IF tc.arguments # "" THEN arguments \o tc.arguments
                       ELSE arguments,
                       Tail(tool_calls))

\* Printer: the full text is the concatenation of the fragments
RECURSIVE FullText(_)
FullText(frags) ==
    IF frags = <<>> THEN "" ELSE Head(frags) \o FullText(Tail(frags))

\* The chat handler persists the exchange once the fragment sequence of
\* the engine has ended: the messages of the request, then the assistant
\* reply.  An exception persists nothing.
ChatStoreAfter(store, chat, outcome, msgs, frags) ==
    IF chat # NoChat /\ outcome = "returned"
    THEN [store EXCEPT
            ![chat] = Append(msgs, Message("assistant", FullText(frags)))]
    ELSE store

NoRequest ==
    [role |-> "", chat |-> NoChat, caching |-> FALSE, cached |-> FALSE,
     key |-> <<>>, vendor_calls |-> 0]

\* A request as handle() hands it to the wrapped get_completion: caching is
\* what the caller of handle() asked for, cached what the wrapper was given.
Request(chat, role, caching, cached, key, vendor_calls) ==
    [role |-> role, chat |-> chat, caching |-> caching, cached |-> cached,
     key |-> key, vendor_calls |-> vendor_calls]

OpenResponses(frames) ==
    Cardinality({i \in DOMAIN frames : frames[i].response = "open"})

\* The record kept of a finished request.
Finished(r, outcome, interrupted, replayed, frames, frags, msgs, execd) ==
    [role |-> r.role, chat |-> r.chat, caching |-> r.caching, key |-> r.key,
     stored_before |-> IF r.chat = NoChat THEN <<>> ELSE chat_store[r.chat],
     stored_after |-> IF r.chat = NoChat THEN <<>>
                      ELSE ChatStoreAfter(chat_store, r.chat, outcome, msgs,
                                          frags)[r.chat],
     fragments |-> frags, vendor_calls |-> r.vendor_calls,
     outcome |-> outcome, interrupted |-> interrupted,
     replayed |-> replayed,
     committed |-> (r.cached /\ ~replayed /\ outcome = "returned"),
     open_responses |-> OpenResponses(frames),
     depth |-> Len(frames),
     messages |-> msgs, executed |-> execd]

\* What main() was called with.  stdin_passed is sys.stdin not being a
\* terminal and stdin the text piped; chat and repl are chat ids (NoChat
\* when the option is absent).
Argv(prompt, stdin_passed, stdin, shell, describe_shell, code, chat, repl, editor, verbose, caching, functions, interaction) ==
    [prompt |-> prompt, stdin_passed |-> stdin_passed, stdin |-> stdin,
     shell |-> shell, describe_shell |-> describe_shell, code |-> code,
     chat |-> chat, repl |-> repl, editor |-> editor, verbose |-> verbose,
     cache |-> caching, functions |-> functions, interaction |-> interaction]

NoArgv ==
    Argv("", FALSE, "", FALSE, FALSE, FALSE, NoChat, NoChat, FALSE, FALSE,
         FALSE, FALSE, FALSE)

\* The process: phase is where main() is ("none" when the engine is driven
\* without main), init_prompt the prompt the REPL holds for its first
\* line, full_completion what the last handler returned, stdout what main
\* printed (each line with the number of vendor calls made before it),
\* commands what run_command was given, exit_code -1 while running.
NoProcess ==
    [phase |-> "none", argv |-> NoArgv, init_prompt |-> "",
     full_completion |-> "", exit_code |-> -1, stdout |-> <<>>,
     commands |-> <<>>]

\* The process ends with the exit code
Ended(p, exit_code) == [p EXCEPT !.phase = "done", !.exit_code = exit_code]

\* Where main() goes on when a handler's handle() has returned its text or
\* raised: an exception ends the process; after the handler of lines
\* 241-258 comes the loop of line 260; the REPL asks for the next line;
\* the description of option d goes back to the loop (line 280).
AfterReturn(p, outcome, text) ==
    IF p.phase = "none" THEN p
    ELSE IF outcome # "returned" THEN Ended(p, 1)
    ELSE IF p.phase = "repl_request" THEN [p EXCEPT !.phase = "repl_prompt"]
    ELSE IF p.phase = "describe" THEN [p EXCEPT !.phase = "interaction"]
    ELSE IF p.argv.shell /\ p.argv.interaction
    THEN [p EXCEPT !.phase = "interaction", !.full_completion = text]
    ELSE Ended([p EXCEPT !.full_completion = text], 0)

\* Control goes back to the caller of handle(): the cache wrapper and the
\* chat handler see the generator end (or raise) and the process is idle.
\* An exception ends the process, so the next request meets the module
\* state of a fresh import.
Return(outcome, interrupted, frames, frags, msgs, execd, kwargs) ==
    /\ pc' = "idle"
    /\ log' = Append(log, Finished(req, outcome, interrupted, FALSE, frames,
                                   frags, msgs, execd))
    /\ cache' = CacheAfter(cache, req.cached, req.key, frags, outcome)
    /\ chat_store' = ChatStoreAfter(chat_store, req.chat, outcome, msgs, frags)
    /\ additional_kwargs' = IF outcome = "returned" THEN kwargs ELSE NoKwargs
    /\ req' = NoRequest
    /\ messages' = <<>>
    /\ stack' = <<>>
    /\ fragments' = <<>>
    /\ executed' = <<>>
    /\ proc' = AfterReturn(proc, outcome, FullText(frags))
    /\ UNCHANGED calls

\* An exception other than KeyboardInterrupt leaves every frame (the try
\* of lines 157-185 catches KeyboardInterrupt only), the wrapper and
\* handle().
Raise(exception, frags, msgs, execd) ==
    Return(exception, FALSE, stack, frags, msgs, execd, additional_kwargs)

Init ==
    /\ pc = "idle"
    /\ req = NoRequest
    /\ messages = <<>>
    /\ stack = <<>>
    /\ fragments = <<>>
    /\ executed = <<>>
    /\ cache = <<>>
    /\ additional_kwargs = NoKwargs
    /\ calls = <<>>
    /\ chat_store = [c \in ChatIds |-> <<>>]
    /\ log = <<>>
    /\ proc = NoProcess

\* The wrapper with caching on and an entry under the fingerprint: it
\* replays the stored fragments and get_completion is not entered.
Replay(chat, role, msgs, caching, key) ==
    /\ CacheHas(cache, key)
    /\ log' = Append(log, Finished(Request(chat, role, caching, TRUE, key, 0),
                                   "returned", FALSE, TRUE, <<>>,
                                   CacheGet(cache, key), msgs, <<>>))
    /\ chat_store' = ChatStoreAfter(chat_store, chat, "returned", msgs,
                                    CacheGet(cache, key))
    /\ UNCHANGED <<pc, req, messages, stack, fragments, executed, cache,
                   additional_kwargs, calls>>

\* get_completion entered (a miss, or caching off): lines 136-158, up to
\* the first wait for a chunk.
Live(chat, role, msgs, caching, cached, functions, key) ==
    LET fns == EffectiveFunctions(role, functions)
        kwargs == KwargsFor(additional_kwargs, fns)
    IN /\ \E chunks \in StreamsAt(1) :
            stack' = <<Frame(chunks, fns)>>
       /\ pc' = "streaming"
       /\ req' = Request(chat, role, caching, cached, key, 1)
       /\ messages' = msgs
       /\ additional_kwargs' = kwargs
       /\ calls' = Append(calls, VendorCall(Len(log) + 1, role, msgs, kwargs, 1))
       /\ UNCHANGED <<fragments, executed, cache, chat_store, log>>

\* The call of the wrapped get_completion, as the wrapper sees it: caching
\* is the request of the caller of handle(), cached the caching argument
\* the wrapper receives.
get_completion(chat, role, msgs, caching, cached, functions, model, temperature, top_p) ==
    LET key == Fingerprint(model, temperature, top_p, msgs, functions)
    IN IF cached /\ CacheHas(cache, key)
       THEN Replay(chat, role, msgs, caching, key)
       ELSE Live(chat, role, msgs, caching, cached, functions, key)

\* handle() forgetting to pass caching on
handle_DropsCaching(chat, role, prompt, caching, functions, model, temperature, top_p) ==
    get_completion(chat, role, MessagesFor(chat_store, chat, role, Strip(prompt)),
                   caching, FALSE, functions, model, temperature, top_p)

\* handle() asking for the cache whatever the caller said
handle_ForcesCaching(chat, role, prompt, caching, functions, model, temperature, top_p) ==
    get_completion(chat, role, MessagesFor(chat_store, chat, role, Strip(prompt)),
                   caching, TRUE, functions, model, temperature, top_p)

\* handle() building the messages of a one-shot request whatever the handler
handle_ForgetsTranscript(chat, role, prompt, caching, functions, model, temperature, top_p) ==
    get_completion(chat, role, make_messages(role, Strip(prompt)),
                   caching, caching, functions, model, temperature, top_p)

\* handle() putting the messages of a one-shot request after the transcript
handle_SystemEveryTurn(chat, role, prompt, caching, functions, model, temperature, top_p) ==
    get_completion(chat, role,
                   IF chat = NoChat THEN make_messages(role, Strip(prompt))
                   ELSE chat_store[chat] \o make_messages(role, Strip(prompt)),
                   caching, caching, functions, model, temperature, top_p)

\* Handler.handle (lines 197-208): the messages of the request, then the
\* wrapped get_completion with the caller's caching flag.
handle(chat, role, prompt, caching, functions, model, temperature, top_p) ==
    get_completion(chat, role, MessagesFor(chat_store, chat, role, Strip(prompt)),
                   caching, caching, functions, model, temperature, top_p)

\* Line 183: the text of the chunk goes to the consumer and the frame
\* waits for the next chunk.
Yield(frame, content) ==
    /\ fragments' = Append(fragments, content)
    /\ stack' = [stack EXCEPT ![Len(stack)] = frame]
    /\ UNCHANGED <<pc, req, messages, executed, cache, additional_kwargs,
                   calls, chat_store, log, proc>>

\* handle_function_call appending the function message only
handle_function_call_NoDeclaration(msgs, frags, name, arguments) ==
    [messages |-> IF IsValidJSON(arguments) /\ name \in RegisteredFunctions
                  THEN Append(msgs, FunctionResultMessage(
                                        name, FunctionResult(name, arguments)))
                  ELSE msgs,
     fragments |-> frags,
     outcome |-> IF ~IsValidJSON(arguments) THEN "JSONDecodeError"
                 ELSE IF name \notin RegisteredFunctions
                 THEN "UnknownFunctionError"
                 ELSE "returned"]

\* handle_function_call(messages, name, arguments), lines 101-125, on the
\* message list msgs, with frags yielded so far: the message list and the
\* fragments it leaves, and how it ends.  (~~~ stands for the code fence of
\* line 124.)
handle_function_call(msgs, frags, name, arguments) ==
    LET msgs1 == Append(msgs, FunctionCallMessage(name, arguments))
        frags1 == IF msgs1 # <<>> /\ msgs1[Len(msgs1)].role = "assistant"
                  THEN Append(frags, "\n")
                  ELSE frags
        result == FunctionResult(name, arguments)
        frags2 == IF SHOW_FUNCTIONS_OUTPUT
                  THEN Append(frags1, "~~~text\n" \o result \o "\n~~~\n")
                  ELSE frags1
        msgs2 == Append(msgs1, FunctionResultMessage(name, result))
    IN IF ~IsValidJSON(arguments)
       THEN [messages |-> msgs1, fragments |-> frags1,
             outcome |-> "JSONDecodeError"]
       ELSE IF name \notin RegisteredFunctions
       THEN [messages |-> msgs1, fragments |-> frags1,
             outcome |-> "UnknownFunctionError"]
       ELSE [messages |-> msgs2, fragments |-> frags2, outcome |-> "returned"]

\* Lines 172-181: handle_function_call, then the nested get_completion with
\* caching=False (the wrapper passes it through) up to its first wait for a
\* chunk.
FunctionCallTurn(frame) ==
    LET name == frame.name
        arguments == frame.arguments
        call == handle_function_call(messages, fragments, name, arguments)
        fns == EffectiveFunctions(req.role, frame.functions)
        kwargs == KwargsFor(additional_kwargs, fns)
        depth == Len(stack) + 1
    IN IF call.outcome # "returned"
       THEN Raise(call.outcome, call.fragments, call.messages, executed)
       ELSE /\ messages' = call.messages
            /\ fragments' = call.fragments
            /\ executed' = Append(executed, <<name, arguments>>)
            /\ additional_kwargs' = kwargs
            /\ calls' = Append(calls, VendorCall(Len(log) + 1, req.role,
                                                 call.messages, kwargs, depth))
            /\ req' = [req EXCEPT !.vendor_calls = @ + 1]
            /\ \E chunks \in StreamsAt(depth) :
                 stack' = Append([stack EXCEPT ![Len(stack)] = frame],
                                 Frame(chunks, fns))
            /\ UNCHANGED <<pc, cache, chat_store, log, proc>>

\* The frame once lines 165-170 have run for the chunk
Accumulated(f, chunk) ==
    LET acc == Accumulate(f.name, f.arguments, chunk.tool_calls)
    IN [f EXCEPT !.pos = @ + 1, !.name = acc.name,
                 !.arguments = acc.arguments]

\* The body of the loop of lines 158-183 for one chunk of a frame.  Line
\* 163 reads use_litellm before anything else is done with the chunk.
LoopBody(f, chunk) ==
    LET frame == Accumulated(f, chunk)
    IN IF ~use_litellm_bound
       THEN Raise("NameError", fragments, messages, executed)
       ELSE IF chunk.finish_reason = "tool_calls"
       THEN FunctionCallTurn(frame)
       ELSE Yield(frame, chunk.content)

\* A request for the next chunk of the innermost response is pending
Awaiting == pc = "streaming"

NextChunk == stack[Len(stack)].chunks[stack[Len(stack)].pos + 1]

HasNextChunk ==
    stack[Len(stack)].pos < Len(stack[Len(stack)].chunks)

\* The next chunk of the innermost response arrives.
ProcessChunk ==
    /\ Awaiting
    /\ HasNextChunk
    /\ LoopBody(stack[Len(stack)], NextChunk)

\* The innermost response is exhausted: its loop ends, the generator
\* returns, and every enclosing frame returns at line 181.
StreamEnd ==
    /\ Awaiting
    /\ ~HasNextChunk
    /\ Return("returned", FALSE,
              [stack EXCEPT ![Len(stack)].response = "exhausted"],
              fragments, messages, executed, additional_kwargs)

\* the except clause without response.close()
KeyboardInterrupt_NoClose ==
    /\ Awaiting
    /\ Return("returned", TRUE, stack, fragments, messages, executed,
              additional_kwargs)

\* Ctrl-C while the innermost frame waits for a chunk: lines 184-185 of
\* that frame close its response and the generator returns; the enclosing
\* frames see a nested generator that ended and return at line 181.
KeyboardInterrupt ==
    /\ Awaiting
    /\ Return("returned", TRUE,
              [stack EXCEPT ![Len(stack)].response = "closed"],
              fragments, messages, executed, additional_kwargs)

\* A chat keeps the role it was started with (an invocation with another
\* role is refused before any handler runs); the chats here are started
\* with the default role.
RolesOf(chat) == IF chat = NoChat THEN Roles ELSE {DEFAULT_ROLE}

\* One invocation of Handler.handle by main (or by the REPL loop).
Handle ==
    /\ pc = "idle"
    /\ Len(log) < MaxRequests
    /\ \E chat \in {NoChat} \cup ChatIds, role \in Roles, prompt \in Prompts,
          caching \in BOOLEAN, functions \in FunctionArgs, model \in Models,
          temperature \in Temperatures, top_p \in TopPs :
         /\ role \in RolesOf(chat)
         /\ handle(chat, role, prompt, caching, functions, model,
                   temperature, top_p)
    /\ UNCHANGED proc

\* The process ends between two requests; the next one runs in a new
\* process, whose module state is that of a fresh import.  The cache and
\* the chat store are on disk and stay.
Exit ==
    /\ pc = "idle"
    /\ additional_kwargs # NoKwargs
    /\ additional_kwargs' = NoKwargs
    /\ UNCHANGED <<pc, req, messages, stack, fragments, executed, cache,
                   calls, chat_store, log, proc>>

Next ==
    \/ Handle
    \/ ProcessChunk
    \/ StreamEnd
    \/ KeyboardInterrupt
    \/ Exit

Spec == Init /\ [][Next]_vars

----------------------------------------------------------------------------
(* One run of the command: main() of src/sgpt/app.py, from the arguments   *)
(* to the exit code, over the engine above.  The cache and the chat store  *)
(* are on disk, so the run starts with what earlier runs left there.       *)

\* The options not varied here take the one value of the sets above.
DefaultModel == CHOOSE model \in Models : TRUE
DefaultTemperature == CHOOSE temperature \in Temperatures : TRUE
DefaultTopP == CHOOSE top_p \in TopPs : TRUE

\* app.py:193
horizontal_separator == "#####"

\* app.py:194: the prompt when stdin is piped
StdinPrompt(stdin, prompt) ==
    IF prompt # ""
    THEN stdin \o "\n\n" \o horizontal_separator \o "\n\n" \o prompt
    ELSE stdin

\* DefaultRoles.check_get(shell, describe_shell, code)
check_get(shell, describe_shell, code) ==
    IF shell THEN SHELL_ROLE
    ELSE IF describe_shell THEN DESCRIBE_SHELL_ROLE
    ELSE IF code THEN CODE_ROLE
    ELSE DEFAULT_ROLE

\* the sum leaving out --code
ModeCount_WithoutCode(shell, describe_shell, code) ==
    (IF shell THEN 1 ELSE 0) + (IF describe_shell THEN 1 ELSE 0)

\* sum((shell, describe_shell, code)), app.py:205
ModeCount(shell, describe_shell, code) ==
    (IF shell THEN 1 ELSE 0) + (IF describe_shell THEN 1 ELSE 0)
        + (IF code THEN 1 ELSE 0)

\* app.py:225
function_schemas(functions) == IF functions THEN FunctionSchemas ELSE None

\* What print_debug_info(prompt, role_class) puts on the terminal: the
\* panel of the role's system prompt and the panel of the user prompt.
print_debug_info(prompt, role) ==
    [what |-> "debug", system |-> RoleText(role), user |-> prompt,
     vendor_calls |-> Len(calls)]

\* The message click prints for a usage error
UsageErrorLine ==
    [what |-> "Error", system |-> "", user |-> "", vendor_calls |-> Len(calls)]

\* The role a stored chat was started with
RoleOfChat(transcript) ==
    CHOOSE role \in Roles : RoleText(role) = transcript[1].content

\* A chat id that exists is used with the role it was started with; the
\* chat handler refuses another role with a usage error.
ChatRoleRefused(chat, role) ==
    /\ chat # NoChat
    /\ chat_store[chat] # <<>>
    /\ RoleOfChat(chat_store[chat]) # role

\* click.UsageError leaves main(): exit code 2 and the message
BadArgumentUsage(p) ==
    /\ proc' = Ended([p EXCEPT !.stdout = Append(@, UsageErrorLine)], 2)
    /\ UNCHANGED <<pc, req, messages, stack, fragments, executed, cache,
                   additional_kwargs, calls, chat_store, log>>

\* A handler's handle(prompt=..., caching=cache, functions=...) called by
\* main() or by the REPL loop while the process is in the given phase.  On
\* a cache hit the text is back at once.
Call(p, phase, chat, role, prompt, caching, functions) ==
    LET key == Fingerprint(DefaultModel, DefaultTemperature, DefaultTopP,
                           MessagesFor(chat_store, chat, role, Strip(prompt)),
                           functions)
        calling == [p EXCEPT !.phase = phase]
    IN /\ handle(chat, role, prompt, caching, functions, DefaultModel,
                 DefaultTemperature, DefaultTopP)
       /\ proc' = IF caching /\ CacheHas(cache, key)
                  THEN AfterReturn(calling, "returned",
                                   FullText(CacheGet(cache, key)))
                  ELSE calling

\* ReplHandler(repl, role_class, md).handle(init_prompt=prompt, ...) up to
\* its first prompt for a line
EnterRepl(p, prompt) ==
    /\ proc' = [p EXCEPT !.phase = "repl_prompt", !.init_prompt = prompt]
    /\ UNCHANGED <<pc, req, messages, stack, fragments, executed, cache,
                   additional_kwargs, calls, chat_store, log>>

\* main(), lines 177-258, up to the first wait for the vendor or the user.
\* edited is what get_edited_prompt() returns.
main(argv, edited) ==
    LET piped == IF argv.stdin_passed
                 THEN StdinPrompt(argv.stdin, argv.prompt)
                 ELSE argv.prompt
        prompt == IF argv.editor THEN edited ELSE piped
        role == check_get(argv.shell, argv.describe_shell, argv.code)
        started == [proc EXCEPT !.argv = argv]
        printed == IF argv.verbose
                   THEN [started EXCEPT
                           !.stdout = <<print_debug_info(prompt, role)>>]
                   ELSE started
    IN IF ModeCount(argv.shell, argv.describe_shell, argv.code) > 1
       THEN BadArgumentUsage(started)
       ELSE IF argv.chat # NoChat /\ argv.repl # NoChat
       THEN BadArgumentUsage(started)
       ELSE IF argv.editor /\ argv.stdin_passed
       THEN BadArgumentUsage(started)
       ELSE IF argv.repl # NoChat
       THEN IF ChatRoleRefused(argv.repl, role)
            THEN BadArgumentUsage(printed)
            ELSE EnterRepl(printed, prompt)
       ELSE IF ChatRoleRefused(argv.chat, role)
       THEN BadArgumentUsage(printed)
       ELSE Call(printed, "main", argv.chat, role, prompt, argv.cache,
                 function_schemas(argv.functions))

\* The command lines of the model
Argvs ==
    {Argv(prompt, stdin_passed, IF stdin_passed THEN PipedText ELSE "",
          shell, describe_shell, code, chat, repl, editor, verbose, caching,
          functions, interaction) :
        prompt \in {""} \cup Prompts, stdin_passed \in BOOLEAN,
        shell \in BOOLEAN, describe_shell \in BOOLEAN, code \in BOOLEAN,
        chat \in {NoChat} \cup ChatIds, repl \in {NoChat} \cup ChatIds,
        editor \in BOOLEAN, verbose \in BOOLEAN, caching \in BOOLEAN,
        functions \in BOOLEAN, interaction \in BOOLEAN}

\* The command is started.
Main ==
    /\ proc.phase = "start"
    /\ \E argv \in Argvs, edited \in Prompts : main(argv, edited)

\* The first line the REPL sends carries the prompt main() handed over
ReplPrompt(init_prompt, line) ==
    IF init_prompt # "" THEN init_prompt \o "\n\n\n" \o line ELSE line

\* The line as the terminal shows it after the prompt ">>>"
ReplEcho(line) ==
    [what |-> ">>>", system |-> "", user |-> line, vendor_calls |-> Len(calls)]

\* exit() falling out of the REPL into the handlers of lines 241-258
ReplExit_FallsThrough(p) ==
    Call(p, "main", p.argv.chat,
         check_get(p.argv.shell, p.argv.describe_shell, p.argv.code),
         p.argv.prompt, p.argv.cache, function_schemas(p.argv.functions))

\* The line exit(): the REPL leaves handle() and main() by typer.Exit, and
\* the process ends with exit code 0.
ReplExit(p) ==
    /\ proc' = Ended(p, 0)
    /\ UNCHANGED <<pc, req, messages, stack, fragments, executed, cache,
                   additional_kwargs, calls, chat_store, log>>

\* The REPL reads a line: exit() ends it, any other line is one handle() of
\* the chat handler under the REPL's id.
ReplLine ==
    /\ proc.phase = "repl_prompt"
    /\ pc = "idle"
    /\ \E line \in Prompts \cup {"exit()"} :
         LET echoed == [proc EXCEPT !.stdout = Append(@, ReplEcho(line))]
         IN IF line = "exit()"
            THEN ReplExit(echoed)
            ELSE /\ Len(log) < MaxRequests
                 /\ Call([echoed EXCEPT !.init_prompt = ""], "repl_request",
                         proc.argv.repl,
                         check_get(proc.argv.shell, proc.argv.describe_shell,
                                   proc.argv.code),
                         ReplPrompt(proc.init_prompt, line), proc.argv.cache,
                         function_schemas(proc.argv.functions))

\* run_command(full_completion)
run_command(p, command) == [p EXCEPT !.commands = Append(@, command)]

\* The answer as the terminal shows it after the prompt of line 262
OptionEcho(option) ==
    [what |-> "[E]xecute, [D]escribe, [A]bort", system |-> "",
     user |-> option, vendor_calls |-> Len(calls)]

\* One round of the loop of lines 260-281: the user answers the prompt
\* "[E]xecute, [D]escribe, [A]bort".
Interaction ==
    /\ proc.phase = "interaction"
    /\ pc = "idle"
    /\ \E option \in {"e", "y", "d", "a"} :
         LET answered == [proc EXCEPT !.stdout = Append(@, OptionEcho(option))]
         IN IF option \in {"e", "y"}
            THEN /\ proc' = Ended(run_command(answered, proc.full_completion), 0)
                 /\ UNCHANGED <<pc, req, messages, stack, fragments, executed,
                                cache, additional_kwargs, calls, chat_store,
                                log>>
            ELSE IF option = "d"
            THEN /\ Len(log) < MaxRequests
                 /\ Call(answered, "describe", NoChat, DESCRIBE_SHELL_ROLE,
                         proc.full_completion, proc.argv.cache,
                         function_schemas(proc.argv.functions))
            ELSE /\ proc' = Ended(answered, 0)
                 /\ UNCHANGED <<pc, req, messages, stack, fragments, executed,
                                cache, additional_kwargs, calls, chat_store,
                                log>>

\* What an earlier run that completed can have left in the cache: the
\* entry of a one-shot request (here with an empty reply).
PersistedCaches ==
    {<<>>} \cup
    {<<[key |-> Fingerprint(DefaultModel, DefaultTemperature, DefaultTopP,
                            make_messages(DEFAULT_ROLE, prompt), None),
        value |-> <<>>]>> : prompt \in Prompts}

\* What an earlier run can have left under a chat id: nothing, or one
\* completed exchange.
PersistedChats ==
    {<<>>} \cup
    {Append(make_messages(DEFAULT_ROLE, prompt), Message("assistant", "")) :
        prompt \in Prompts}

InitMain ==
    /\ pc = "idle"
    /\ req = NoRequest
    /\ messages = <<>>
    /\ stack = <<>>
    /\ fragments = <<>>
    /\ executed = <<>>
    /\ cache \in PersistedCaches
    /\ additional_kwargs = NoKwargs
    /\ calls = <<>>
    /\ chat_store \in [ChatIds -> PersistedChats]
    /\ log = <<>>
    /\ proc = [NoProcess EXCEPT !.phase = "start"]

NextMain ==
    \/ Main
    \/ ReplLine
    \/ Interaction
    \/ ProcessChunk
    \/ StreamEnd
    \/ KeyboardInterrupt

SpecMain == InitMain /\ [][NextMain]_vars

----------------------------------------------------------------------------
(* One request, with handle_function_call also called on its own: while    *)
(* the request is served the method is called on its message list, for any *)
(* function name and arguments a vendor can ask for.  The chat store       *)
(* starts with what earlier runs left there.                               *)

FunctionNames == {"list_dir", "rm_rf"}
FunctionArguments == {"{\"path\": \".\"}", "{\"path\":"}

InitDispatch ==
    /\ pc = "idle"
    /\ req = NoRequest
    /\ messages = <<>>
    /\ stack = <<>>
    /\ fragments = <<>>
    /\ executed = <<>>
    /\ cache = <<>>
    /\ additional_kwargs = NoKwargs
    /\ calls = <<>>
    /\ chat_store \in [ChatIds -> PersistedChats]
    /\ log = <<>>
    /\ proc = NoProcess

\* The one request
HandleOnce ==
    /\ log = <<>>
    /\ Handle

HandleFunctionCall ==
    /\ Awaiting
    /\ Len(executed) < MaxDepth
    /\ \E name \in FunctionNames, arguments \in FunctionArguments :
         LET call == handle_function_call(messages, fragments, name, arguments)
         IN IF call.outcome # "returned"
            THEN Raise(call.outcome, call.fragments, call.messages, executed)
            ELSE /\ messages' = call.messages
                 /\ fragments' = call.fragments
                 /\ executed' = Append(executed, <<name, arguments>>)
                 /\ UNCHANGED <<pc, req, stack, cache, additional_kwargs,
                                calls, chat_store, log, proc>>

NextDispatch ==
    \/ HandleOnce
    \/ ProcessChunk
    \/ StreamEnd
    \/ KeyboardInterrupt
    \/ HandleFunctionCall

SpecDispatch == InitDispatch /\ [][NextDispatch]_vars

----------------------------------------------------------------------------
(* One request from its start to its end, with the vendor's stream         *)
(* delivered: the loop of line 158 gets the next chunk of a finite stream  *)
(* or its end, so a frame waiting for a chunk does not wait for ever.      *)
(* Ctrl-C may or may not come.                                             *)

NextRequest ==
    \/ HandleOnce
    \/ ProcessChunk
    \/ StreamEnd
    \/ KeyboardInterrupt

SpecRequest ==
    /\ Init
    /\ [][NextRequest]_vars
    /\ WF_vars(ProcessChunk)
    /\ WF_vars(StreamEnd)

----------------------------------------------------------------------------
(* The accumulation of lines 165-170 on its own: a frame is fed a stream  *)
(* of tool-call deltas whose name and arguments are split in every way.   *)

NameFragments == {"", "list_", "dir"}
ArgumentFragments == {"", "{", "}"}

DeltaStreams ==
    UNION {[1..n -> {Delta("", <<ToolCall(nm, ar)>>, "") :
                        nm \in NameFragments, ar \in ArgumentFragments}] :
           n \in 0..MaxDeltas}

InitAccumulate ==
    /\ pc = "accumulating"
    /\ \E chunks \in DeltaStreams : stack = <<Frame(chunks, None)>>
    /\ req = NoRequest
    /\ messages = <<>>
    /\ fragments = <<>>
    /\ executed = <<>>
    /\ cache = <<>>
    /\ additional_kwargs = NoKwargs
    /\ calls = <<>>
    /\ chat_store = [c \in ChatIds |-> <<>>]
    /\ log = <<>>
    /\ proc = NoProcess

AccumulateChunk ==
    /\ pc = "accumulating"
    /\ HasNextChunk
    /\ stack' = <<Accumulated(stack[1], NextChunk)>>
    /\ UNCHANGED <<pc, req, messages, fragments, executed, cache,
                   additional_kwargs, calls, chat_store, log, proc>>

SpecAccumulate == InitAccumulate /\ [][AccumulateChunk]_vars

----------------------------------------------------------------------------
(* The Anthropic backend on its own: completion() of lines 65-67 adapts    *)
(* the keyword arguments get_completion passes (lines 148-155) and hands   *)
(* them to client.messages.create.  Here req holds the keyword arguments   *)
(* as get_completion built them, messages is the caller's list (the        *)
(* adapter works on the caller's message objects), and calls the requests  *)
(* dispatched.                                                             *)

MaxTurns == 3

\* How many times completion() is called on one list
MaxCalls == 2

\* The model the adapter asserts (line 63), and another one --model can name
AnthropicModels == {"claude-3-5-sonnet-20241022", "claude-3-opus-20240229"}

\* A message content: the text, and how many one-block lists
\* [{"type": "text", "text": ...}] are wrapped around it (0: a plain string)
PlainContent(text) == [text |-> text, blocks |-> 0]

\* the content left as it is
TextBlock_Unwrapped(content) == content

\* lines 55-58
TextBlock(content) == [text |-> content.text, blocks |-> content.blocks + 1]

\* A message dict of the transcript
Dict(role, content) == [role |-> role, content |-> content]

UserTexts == {"hello", "more"}
AssistantTexts == {"", "Hi there"}

\* The turns after the system message: user and assistant in alternation,
\* ending with the new user prompt
Turns(n) ==
    {t \in [1..n -> UserTexts \cup AssistantTexts] :
        \A i \in 1..n : IF (n - i) % 2 = 0 THEN t[i] \in UserTexts
                        ELSE t[i] \in AssistantTexts}

TurnRole(n, i) == IF (n - i) % 2 = 0 THEN "user" ELSE "assistant"

\* The transcripts a handler passes: the system message of the role, then
\* the turns
Transcripts ==
    {<<Dict("system", PlainContent(RoleText(role)))>> \o
        [i \in DOMAIN t |-> Dict(TurnRole(Len(t), i), PlainContent(t[i]))] :
        role \in Roles, t \in UNION {Turns(n) : n \in 1..MaxTurns}}

\* The keyword arguments of lines 148-155: there is no system among them
Kwargs(model, msgs, kwargs) ==
    [model |-> model, messages |-> msgs, has_system |-> FALSE,
     system |-> PlainContent(""), tools |-> kwargs.tools]

\* lines 51-58: the loop over the messages, which rewrites the content of
\* every message that is not a system message, in the message itself
RECURSIVE messages_without_system(_)
messages_without_system(msgs) ==
    IF msgs = <<>> THEN <<>>
    ELSE IF Head(msgs).role = "system"
    THEN messages_without_system(Tail(msgs))
    ELSE <<[Head(msgs) EXCEPT !.content = TextBlock(@)]>>
             \o messages_without_system(Tail(msgs))

\* line 52-53: the last system message the loop meets
RECURSIVE system_message(_, _)
system_message(msgs, found) ==
    IF msgs = <<>> THEN found
    ELSE system_message(Tail(msgs),
                        IF Head(msgs).role = "system" THEN <<Head(msgs)>>
                        ELSE found)

\* The caller's list once the loop has run
AfterAdapting(msgs) ==
    [i \in DOMAIN msgs |->
        IF msgs[i].role = "system" THEN msgs[i]
        ELSE [msgs[i] EXCEPT !.content = TextBlock(@)]]

\* lines 32-64, for keyword arguments with a system message among the
\* messages and the asserted model
adapt_parameters_to_anthropic(kwargs) ==
    IF kwargs.has_system THEN kwargs
    ELSE [kwargs EXCEPT
            !.messages = messages_without_system(kwargs.messages),
            !.has_system = TRUE,
            !.system = system_message(kwargs.messages, <<>>)[1].content]

InitAnthropic ==
    /\ pc = "completion"
    /\ \E model \in AnthropicModels, msgs \in Transcripts,
          functions \in FunctionArgs :
         /\ req = Kwargs(model, msgs, KwargsFor(NoKwargs, functions))
         /\ messages = msgs
    /\ stack = <<>>
    /\ fragments = <<>>
    /\ executed = <<>>
    /\ cache = <<>>
    /\ additional_kwargs = NoKwargs
    /\ calls = <<>>
    /\ chat_store = [c \in ChatIds |-> <<>>]
    /\ log = <<>>
    /\ proc = NoProcess

\* completion(**kwargs), lines 65-67.  Without a system message line 61
\* subscripts None; another model fails the assertion of line 62, after
\* the loop has run.
completion ==
    /\ pc = "completion"
    /\ IF req.has_system
       THEN /\ pc' = "dispatched"
            /\ calls' = Append(calls, req)
            /\ UNCHANGED messages
       ELSE IF system_message(req.messages, <<>>) = <<>>
       THEN /\ pc' = "TypeError"
            /\ messages' = AfterAdapting(messages)
            /\ UNCHANGED calls
       ELSE IF req.model # "claude-3-5-sonnet-20241022"
       THEN /\ pc' = "AssertionError"
            /\ messages' = AfterAdapting(messages)
            /\ UNCHANGED calls
       ELSE /\ pc' = "dispatched"
            /\ calls' = Append(calls, adapt_parameters_to_anthropic(req))
            /\ messages' = AfterAdapting(messages)
    /\ UNCHANGED <<req, stack, fragments, executed, cache, additional_kwargs,
                   chat_store, log, proc>>

\* get_completion calls completion() again with the same list: the nested
\* call of lines 173-180 passes messages=messages, and its keyword
\* arguments are built anew at lines 148-155.
CallAgain ==
    /\ pc = "dispatched"
    /\ Len(calls) < MaxCalls
    /\ pc' = "completion"
    /\ req' = [req EXCEPT !.messages = messages]
    /\ UNCHANGED <<messages, stack, fragments, executed, cache,
                   additional_kwargs, calls, chat_store, log, proc>>

NextAnthropic ==
    \/ completion
    \/ CallAgain

SpecAnthropic == InitAnthropic /\ [][NextAnthropic]_vars

----------------------------------------------------------------------------
(* The configuration across process starts: cfg = Config(path, defaults)   *)
(* of config.py:167 at import.  A text is the sequence of its pieces (a    *)
(* model name, a key, or one character of punctuation), so that writing    *)
(* and reading are done piece by piece.  Here cache holds the config file  *)
(* on disk, req the Config dict of the running process, log the starts so  *)
(* far, and pc whether a process runs.  The keys followed are              *)
(* MODEL_PRECEDENCE and, for the keys with a string value, USE_LITELLM.    *)

MaxStarts == 3

\* A str value and a list-of-str value of the dict
Str(text) == [kind |-> "str", text |-> text, items |-> <<>>]
List(items) == [kind |-> "list", text |-> <<>>, items |-> items]

\* sep.join(items)
RECURSIVE Join(_, _)
Join(items, sep) ==
    IF items = <<>> THEN <<>>
    ELSE IF Len(items) = 1 THEN Head(items)
    ELSE Head(items) \o sep \o Join(Tail(items), sep)

\* repr() of a str inside a list
Quoted(text) == <<"'">> \o text \o <<"'">>

\* f"{value}" (line 137): a str as it is, a list as Python prints it
Format(value) ==
    IF value.kind = "str" THEN value.text
    ELSE <<"[">>
            \o Join([i \in DOMAIN value.items |-> Quoted(value.items[i])],
                    <<",", " ">>)
            \o <<"]">>

IsSpace(piece) == piece \in {" ", "\n"}

RECURSIVE LStrip(_)
LStrip(text) ==
    IF text # <<>> /\ IsSpace(Head(text)) THEN LStrip(Tail(text)) ELSE text

RECURSIVE RStrip(_)
RStrip(text) ==
    IF text # <<>> /\ IsSpace(text[Len(text)])
    THEN RStrip(SubSeq(text, 1, Len(text) - 1))
    ELSE text

\* str.strip()
StripText(text) == RStrip(LStrip(text))

\* text.split(sep) for a one-character sep: current is the part being read
RECURSIVE SplitFrom(_, _, _)
SplitFrom(text, sep, current) ==
    IF text = <<>> THEN <<current>>
    ELSE IF Head(text) = sep
    THEN <<current>> \o SplitFrom(Tail(text), sep, <<>>)
    ELSE SplitFrom(Tail(text), sep, Append(current, Head(text)))

Split(text, sep) == SplitFrom(text, sep, <<>>)

\* Where the first sep of the text is (0 when there is none)
FirstIndex(text, sep) ==
    IF \E i \in DOMAIN text : text[i] = sep
    THEN CHOOSE i \in DOMAIN text :
            text[i] = sep /\ \A j \in 1..(i - 1) : text[j] # sep
    ELSE 0

\* [model.strip() for model in text.split(",")], lines 87 and 127
Precedence(text) ==
    LET parts == Split(text, ",")
    IN [i \in DOMAIN parts |-> StripText(parts[i])]

\* The dict: its items in insertion order
HasKey(dict, key) == \E i \in DOMAIN dict : dict[i].key = key

Get(dict, key) == dict[CHOOSE i \in DOMAIN dict : dict[i].key = key].value

\* self[key] = value
Set(dict, key, value) ==
    IF HasKey(dict, key)
    THEN [i \in DOMAIN dict |->
            IF dict[i].key = key THEN [key |-> key, value |-> value]
            ELSE dict[i]]
    ELSE Append(dict, [key |-> key, value |-> value])

MODEL_PRECEDENCE_KEY == <<"MODEL_PRECEDENCE">>
USE_LITELLM_KEY == <<"USE_LITELLM">>

\* What the environment variable MODEL_PRECEDENCE can hold at a start; the
\* first is the default of lines 79-81
EnvPrecedences ==
    {<<"claude-3-5-sonnet-20241022", ",", " ", "gpt-4o">>,
     <<"gpt-4o">>,
     <<"gpt-4o", ",", "claude-3-5-sonnet-20241022">>,
     <<" ", "gpt-4o-mini", ",", " ", "gpt-4o", ",", " ",
       "claude-3-5-sonnet-20241022">>}

\* DEFAULT_CONFIG once lines 58-89 have run: MODEL_PRECEDENCE is the list
DEFAULT_CONFIG(env) ==
    <<[key |-> USE_LITELLM_KEY, value |-> Str(<<"false">>)],
      [key |-> MODEL_PRECEDENCE_KEY, value |-> List(Precedence(env))]>>

\* The file: whether it exists, and its lines
NoFile == [exists |-> FALSE, lines |-> <<>>]

\* A file kept from a version without MODEL_PRECEDENCE
OldFile == [exists |-> TRUE, lines |-> <<<<"USE_LITELLM", "=", "false">>>>]

\* Config._write, lines 133-138: one line key=value for each item
write(dict) ==
    [exists |-> TRUE,
     lines |-> [i \in DOMAIN dict |->
                  dict[i].key \o <<"=">> \o Format(dict[i].value)]]

\* Config._read_from_line, lines 145-152, for a line with a "=" and a key
\* that is not one of the POTENTIAL_PATH_KEYS of line 96
read_from_line(dict, line) ==
    LET stripped == StripText(line)
        at == FirstIndex(stripped, "=")
        key == SubSeq(stripped, 1, at - 1)
        value == SubSeq(stripped, at + 1, Len(stripped))
    IN IF stripped = <<>> \/ Head(stripped) = "#" THEN dict
       ELSE Set(dict, key, Str(value))

\* Config._read, lines 140-143
RECURSIVE read(_, _)
read(dict, lines) ==
    IF lines = <<>> THEN dict
    ELSE read(read_from_line(dict, Head(lines)), Tail(lines))

\* lines 106-109
RECURSIVE WithDefaults(_, _)
WithDefaults(dict, defaults) ==
    IF defaults = <<>> THEN dict
    ELSE WithDefaults(IF HasKey(dict, Head(defaults).key) THEN dict
                      ELSE Append(dict, Head(defaults)),
                      Tail(defaults))

\* Config.__init__, lines 100-127: the dict, the file it leaves, and how it
\* ends.  Line 127 calls .split on the value of MODEL_PRECEDENCE, which a
\* list does not have.
Config(file, defaults) ==
    LET loaded == read(<<>>, file.lines)
        merged == WithDefaults(loaded, defaults)
        dict == IF file.exists THEN merged ELSE defaults
        written == IF file.exists /\ merged = loaded THEN file ELSE write(dict)
        value == Get(dict, MODEL_PRECEDENCE_KEY)
    IN IF value.kind = "list"
       THEN [cfg |-> dict, file |-> written, outcome |-> "AttributeError"]
       ELSE [cfg |-> Set(dict, MODEL_PRECEDENCE_KEY,
                         List(Precedence(value.text))),
             file |-> written, outcome |-> "running"]

\* Config.model, lines 161-164
model(cfg) == Get(cfg, MODEL_PRECEDENCE_KEY).items[1]

\* What is kept of a start: the defaults it was given, whether it found a
\* file, how the import ended, and the dict it built
Started(env, file, made) ==
    [env |-> env, had_file |-> file.exists, outcome |-> made.outcome,
     cfg |-> made.cfg]

InitConfig ==
    /\ pc = "stopped"
    /\ cache \in {NoFile, OldFile}
    /\ req = <<>>
    /\ log = <<>>
    /\ messages = <<>>
    /\ stack = <<>>
    /\ fragments = <<>>
    /\ executed = <<>>
    /\ additional_kwargs = NoKwargs
    /\ calls = <<>>
    /\ chat_store = [c \in ChatIds |-> <<>>]
    /\ proc = NoProcess

\* A process starts: config.py is imported.
Start ==
    /\ pc = "stopped"
    /\ Len(log) < MaxStarts
    /\ \E env \in EnvPrecedences :
         LET made == Config(cache, DEFAULT_CONFIG(env))
         IN /\ cache' = made.file
            /\ req' = made.cfg
            /\ pc' = made.outcome
            /\ log' = Append(log, Started(env, cache, made))
    /\ UNCHANGED <<messages, stack, fragments, executed, additional_kwargs,
                   calls, chat_store, proc>>

\* The process ends (at once when the import raised); the file stays.
Stop ==
    /\ pc # "stopped"
    /\ pc' = "stopped"
    /\ req' = <<>>
    /\ UNCHANGED <<cache, log, messages, stack, fragments, executed,
                   additional_kwargs, calls, chat_store, proc>>

NextConfig ==
    \/ Start
    \/ Stop

SpecConfig == InitConfig /\ [][NextConfig]_vars

----------------------------------------------------------------------------
(* Properties *)

Last(seq) == seq[Len(seq)]

ShellRoles == {SHELL_ROLE, CODE_ROLE, DESCRIBE_SHELL_ROLE}

\* Entries committed by the requests strictly between i and j
CommitsBetween(i, j) ==
    Cardinality({k \in (i + 1)..(j - 1) : log[k].committed})

C2_CachingOffBypasses ==
    [][ /\ ( \/ pc = "streaming" /\ ~req.caching
             \/ pc' = "streaming" /\ ~req'.caching ) => cache' = cache
        /\ (Len(log') = Len(log) + 1 /\ ~Last(log').caching)
             => /\ cache' = cache
                /\ Last(log').vendor_calls >= 1
                /\ ~Last(log').replayed ]_vars

C2_Witness ==
    \E i, j \in DOMAIN log :
        /\ i < j
        /\ log[i].key = log[j].key
        /\ log[i].committed
        /\ CacheHas(cache, log[j].key)
        /\ ~log[j].caching
        /\ log[j].vendor_calls = 1

\* C3: after a request with caching on was interrupted, the cache holds no
\* entry under its fingerprint.
C3_InterruptedNotCached ==
    (pc = "idle" /\ log # <<>> /\ Last(log).caching /\ Last(log).interrupted)
    => ~CacheHas(cache, Last(log).key)

Contents(chunks) == [i \in DOMAIN chunks |-> chunks[i].content]

\* C4: on a miss with caching on and a stream without a function call,
\* every chunk that arrives hands its text to the caller and the engine
\* goes on streaming; when the stream ends the vendor was called once, the
\* caller got the texts of the chunks in order and the cache holds them
\* under the fingerprint of the request.
C4_MissStreamsAndCommits ==
    [][ (req.caching /\ Len(stack) = 1 /\ ~EndsInFunctionCall(stack[1].chunks))
        => /\ ProcessChunk
                => /\ pc' = "streaming"
                   /\ fragments' = Append(fragments, NextChunk.content)
           /\ StreamEnd
                => /\ req.vendor_calls = 1
                   /\ fragments = Contents(stack[1].chunks)
                   /\ CacheHas(cache', req.key)
                   /\ CacheGet(cache', req.key) = fragments ]_vars

\* C5: when the chunk with the function-call finish reason arrives, with
\* name n and arguments a accumulated (valid JSON, a registered function),
\* the engine appends the assistant message with function_call {n, a} and
\* the function message with the result, and makes one more vendor call,
\* which does not touch the cache; at every depth.
C5_FunctionCallTurn ==
    [][ ( /\ ProcessChunk
          /\ NextChunk.finish_reason = "tool_calls"
          /\ IsValidJSON(Accumulated(Last(stack), NextChunk).arguments)
          /\ Accumulated(Last(stack), NextChunk).name \in RegisteredFunctions )
        => LET n == Accumulated(Last(stack), NextChunk).name
               a == Accumulated(Last(stack), NextChunk).arguments
           IN /\ messages' = messages \o
                    <<FunctionCallMessage(n, a),
                      FunctionResultMessage(n, FunctionResult(n, a))>>
              /\ Len(calls') = Len(calls) + 1
              /\ Len(stack') = Len(stack) + 1
              /\ cache' = cache ]_vars

\* C6: no vendor call made for a handler whose role is shell-command, code
\* or describe-shell carries function schemas.
C6_ShellRolesSendNoTools ==
    \A i \in DOMAIN calls :
        calls[i].role \in ShellRoles => calls[i].tools = None

C8_InterruptedChatNotPersisted ==
    \A i \in DOMAIN log :
        (log[i].chat # NoChat /\ log[i].interrupted)
        => log[i].stored_after = log[i].stored_before

RECURSIVE ConcatNames(_)
ConcatNames(chunks) ==
    IF chunks = <<>> THEN ""
    ELSE Head(chunks).tool_calls[1].name \o ConcatNames(Tail(chunks))

RECURSIVE ConcatArguments(_)
ConcatArguments(chunks) ==
    IF chunks = <<>> THEN ""
    ELSE Head(chunks).tool_calls[1].arguments \o ConcatArguments(Tail(chunks))

\* C9: once every delta of the stream is consumed, the accumulated name is
\* the concatenation of the name fragments in arrival order and the
\* accumulated arguments the concatenation of the argument fragments.
C9_NameAndArgumentsConcatenated ==
    (pc = "accumulating" /\ ~HasNextChunk)
    => /\ stack[1].name = ConcatNames(stack[1].chunks)
       /\ stack[1].arguments = ConcatArguments(stack[1].chunks)

\* C10: when the chunk with the function-call finish reason arrives and
\* the accumulated arguments are not JSON, or the name is not registered,
\* the request ends with that error at its caller, no function was
\* invoked, no function message appended, no further vendor call made and
\* nothing cached.
C10_DispatcherErrorPropagates ==
    [][ ( /\ ProcessChunk
          /\ NextChunk.finish_reason = "tool_calls"
          /\ \/ ~IsValidJSON(Accumulated(Last(stack), NextChunk).arguments)
             \/ Accumulated(Last(stack), NextChunk).name
                    \notin RegisteredFunctions )
        => /\ pc' = "idle"
           /\ Last(log').outcome =
                 IF ~IsValidJSON(Accumulated(Last(stack), NextChunk).arguments)
                 THEN "JSONDecodeError" ELSE "UnknownFunctionError"
           /\ Last(log').executed = executed
           /\ \A k \in DOMAIN Last(log').messages :
                  k > Len(messages) => Last(log').messages[k].role # "function"
           /\ calls' = calls
           /\ cache' = cache ]_vars

\* The frame has consumed the chunk with the function-call finish reason
Serviced(f) ==
    f.pos > 0 /\ f.chunks[f.pos].finish_reason = "tool_calls"

\* C11: when the chunk with the function-call finish reason arrives (a
\* registered function, JSON arguments), the dispatcher invokes that one
\* function once, whatever number of tool-call deltas came before, and a
\* response whose function call was serviced gives no further chunk.
C11_OneFunctionPerTurn ==
    [][ /\ ( /\ ProcessChunk
             /\ NextChunk.finish_reason = "tool_calls"
             /\ IsValidJSON(Accumulated(Last(stack), NextChunk).arguments)
             /\ Accumulated(Last(stack), NextChunk).name
                    \in RegisteredFunctions )
            => /\ pc' = "streaming"
               /\ executed' =
                    Append(executed,
                           <<Accumulated(Last(stack), NextChunk).name,
                             Accumulated(Last(stack), NextChunk).arguments>>)
        /\ \A i \in DOMAIN stack :
              (Serviced(stack[i]) /\ i \in DOMAIN stack')
              => stack'[i].pos = stack[i].pos ]_vars

\* The messages of the first vendor call of request j
SentBy(j) ==
    calls[CHOOSE i \in DOMAIN calls :
              calls[i].request = j /\ calls[i].depth = 1].messages

\* The chat requests before j under the chat id of request j
EarlierOf(j) == {i \in 1..(j - 1) : log[i].chat = log[j].chat}

IsPromptLine(e) == e.what = ">>>" /\ e.user # "exit()"

\* The prompt lines the REPL has read, in order
PromptLines == SelectSeq(proc.stdout, IsPromptLine)

Replays == Cardinality({j \in DOMAIN log : log[j].replayed})

FirstUserPrompt == Last(calls[1].messages).content

\* C14: in a run with text piped on stdin and a prompt argument (no REPL),
\* the user prompt of the vendor call is the stdin text, a blank line, then
\* the prompt argument; and with caching off and no interaction loop the
\* run ends with exactly one vendor call made.
C14_StdinThenPrompt ==
    (proc.argv.stdin_passed /\ proc.argv.prompt # ""
        /\ proc.argv.repl = NoChat)
    => /\ calls # <<>>
          => FirstUserPrompt = proc.argv.stdin \o "\n\n" \o proc.argv.prompt
       /\ ( /\ proc.phase = "done" /\ proc.exit_code # 2
            /\ ~proc.argv.cache /\ ~proc.argv.shell )
          => Len(calls) = 1

HasErrorLine == \E i \in DOMAIN proc.stdout : proc.stdout[i].what = "Error"

\* C15: a run with --verbose and --shell, or --verbose and
\* --describe-shell, and no prompt (none given, none piped, none edited,
\* no REPL) never calls the vendor and ends with exit code 2 and an error
\* message.
C15_VerboseShellNoPrompt ==
    ( /\ proc.argv.verbose
      /\ proc.argv.shell \/ proc.argv.describe_shell
      /\ proc.argv.prompt = "" /\ ~proc.argv.stdin_passed
      /\ ~proc.argv.editor /\ proc.argv.repl = NoChat )
    => /\ calls = <<>>
       /\ proc.phase = "done" => (proc.exit_code = 2 /\ HasErrorLine)

\* The role main() picks for the run
RoleOfRun ==
    check_get(proc.argv.shell, proc.argv.describe_shell, proc.argv.code)

\* C16: in a one-shot run with --verbose (a prompt, caching off, no chat,
\* no REPL, no interaction loop, arguments that are accepted), the first
\* thing printed is the role's system prompt and the user prompt, printed
\* before any vendor call; the vendor call carries the role's system
\* message followed by the user prompt; and the run ends with exactly one
\* vendor call made and exit code 0.
C16_VerbosePrintsThenCallsOnce ==
    ( /\ proc.phase # "start"
      /\ proc.argv.verbose /\ proc.argv.prompt # ""
      /\ ~proc.argv.cache
      /\ proc.argv.chat = NoChat /\ proc.argv.repl = NoChat
      /\ ~(proc.argv.shell /\ proc.argv.interaction)
      /\ ModeCount(proc.argv.shell, proc.argv.describe_shell,
                   proc.argv.code) <= 1
      /\ ~(proc.argv.editor /\ proc.argv.stdin_passed) )
    => /\ proc.stdout # <<>>
       /\ proc.stdout[1].what = "debug"
       /\ proc.stdout[1].system = RoleText(RoleOfRun)
       /\ proc.stdout[1].vendor_calls = 0
       /\ calls # <<>>
       /\ calls[1].messages =
             make_messages(RoleOfRun, Strip(proc.stdout[1].user))
       /\ proc.phase = "done" => (Len(calls) = 1 /\ proc.exit_code = 0)

IsNotSystem(message) == message.role # "system"

\* C17: the request the Anthropic backend dispatches for a transcript has
\* the text of the transcript's system message as its system field, and as
\* messages the messages of the transcript that are not system messages,
\* in their order, each with its text in one text block.
C17_AnthropicRequest ==
    (pc = "dispatched")
    => LET request == calls[1]
           others == SelectSeq(req.messages, IsNotSystem)
       IN /\ request.has_system
          /\ request.system = req.messages[1].content
          /\ request.system.blocks = 0
          /\ Len(request.messages) = Len(others)
          /\ \A i \in DOMAIN others :
                /\ request.messages[i].role = others[i].role
                /\ request.messages[i].role # "system"
                /\ request.messages[i].content.text = others[i].content.text
                /\ request.messages[i].content.blocks = 1

C17_Witness ==
    /\ pc = "dispatched"
    /\ Len(req.messages) = 4
    /\ Len(calls[1].messages) = 3
    /\ calls[1].messages[2].role = "assistant"

\* At most one system message, and it is the first; a function message
\* comes right after the assistant message that declared the call
WellFormed(transcript) ==
    \A i \in DOMAIN transcript :
        /\ transcript[i].role = "system" => i = 1
        /\ transcript[i].role = "function"
           => /\ i > 1
              /\ transcript[i - 1].role = "assistant"
              /\ transcript[i - 1].function_call # <<>>
              /\ transcript[i - 1].function_call[1] = transcript[i].name

\* C18: the message list of the request being served, the message list of
\* every finished request, every list sent to the vendor and every stored
\* transcript has at most one system message, the first, and each of its
\* function messages right after the assistant message declaring that
\* function call.
C18_TranscriptWellFormed ==
    /\ WellFormed(messages)
    /\ \A i \in DOMAIN log : WellFormed(log[i].messages)
    /\ \A i \in DOMAIN calls : WellFormed(calls[i].messages)
    /\ \A chat \in ChatIds : WellFormed(chat_store[chat])

C18_Witness ==
    /\ pc = "idle"
    /\ \E chat \in ChatIds :
         /\ Len(chat_store[chat]) >= 8
         /\ chat_store[chat][1].role = "system"
         /\ chat_store[chat][4].role = "user"
         /\ chat_store[chat][5].function_call # <<>>
         /\ chat_store[chat][6].role = "function"

Refused(argv) ==
    \/ argv.shell /\ argv.describe_shell
    \/ argv.shell /\ argv.code
    \/ argv.describe_shell /\ argv.code
    \/ argv.chat # NoChat /\ argv.repl # NoChat
    \/ argv.editor /\ argv.stdin_passed

\* C20: a run started with more than one of --shell, --describe-shell and
\* --code, or with --chat and --repl, or with --editor and piped stdin,
\* ends at once with a usage error (exit code 2 and the error message as
\* the only output): no vendor call, no request handed to a handler,
\* nothing written to the chat store or the cache, no command run.
C20_UsageErrorBeforeHandlers ==
    [][ (proc'.phase # "start" /\ Refused(proc'.argv))
        => /\ proc'.phase = "done"
           /\ proc'.exit_code = 2
           /\ Len(proc'.stdout) = 1 /\ proc'.stdout[1].what = "Error"
           /\ pc' = "idle"
           /\ calls' = <<>>
           /\ log' = <<>>
           /\ chat_store' = chat_store
           /\ cache' = cache
           /\ proc'.commands = <<>> ]_vars

C20_Witness ==
    /\ proc.phase = "done"
    /\ proc.exit_code = 2
    /\ proc.argv.editor /\ proc.argv.stdin_passed
    /\ proc.argv.shell /\ ~proc.argv.describe_shell /\ ~proc.argv.code
    /\ proc.argv.chat # NoChat /\ proc.argv.repl = NoChat
    /\ calls = <<>>

----------------------------------------------------------------------------
\* The answers given to the prompt of line 262 so far
IsOptionLine(e) == e.what = "[E]xecute, [D]escribe, [A]bort"

\* The step is an answer to the prompt, and the answer
Answers(option) ==
    /\ proc.phase = "interaction"
    /\ Len(proc'.stdout) = Len(proc.stdout) + 1
    /\ IsOptionLine(Last(proc'.stdout))
    /\ Last(proc'.stdout).user = option

\* The step hands one describe-shell request for the generated command to
\* the engine
DescribesOnce ==
    LET msgs == make_messages(DESCRIBE_SHELL_ROLE, Strip(proc.full_completion))
    IN \/ /\ Len(calls') = Len(calls) + 1
          /\ Last(calls').role = DESCRIBE_SHELL_ROLE
          /\ Last(calls').messages = msgs
          /\ log' = log
       \/ /\ calls' = calls
          /\ Len(log') = Len(log) + 1
          /\ Last(log').role = DESCRIBE_SHELL_ROLE
          /\ Last(log').messages = msgs

\* C21: in shell mode with interaction, once the command is generated, e or
\* y runs the generated command exactly once and ends the loop, a ends the
\* loop without running anything, d issues exactly one describe-shell
\* completion for the generated command and prompts again; over any
\* sequence of choices the command is run at most once and never without an
\* e/y choice, and without --shell or without interaction it is never run.
C21_ShellInteraction ==
    [][ /\ (Answers("e") \/ Answers("y"))
            => /\ proc'.commands = <<proc.full_completion>>
               /\ proc'.phase = "done"
               /\ calls' = calls
        /\ Answers("a")
            => /\ proc'.commands = <<>>
               /\ proc'.phase = "done"
               /\ calls' = calls
        /\ Answers("d")
            => /\ DescribesOnce
               /\ proc'.commands = <<>>
               /\ proc'.phase \in {"describe", "interaction"}
        /\ (proc.phase = "describe" /\ proc'.phase # "describe")
            => /\ proc'.phase = "interaction"
               /\ proc'.full_completion = proc.full_completion
        /\ proc'.commands # proc.commands
            => /\ Answers("e") \/ Answers("y")
               /\ proc.argv.shell /\ proc.argv.interaction
               /\ proc.commands = <<>>
      ]_vars

----------------------------------------------------------------------------
\* Every assistant message carrying a function_call is immediately followed
\* by the function message of that name
NoDangling(transcript) ==
    \A i \in DOMAIN transcript :
        transcript[i].function_call # <<>>
        => /\ i < Len(transcript)
           /\ transcript[i + 1].role = "function"
           /\ transcript[i + 1].name = transcript[i].function_call[1]

\* C22: whenever control has returned to the caller of the engine (normal
\* end, dispatcher error or keyboard interrupt), every assistant message
\* carrying a function_call in the message list is immediately followed by
\* a function-role message with the same name: a failed or interrupted
\* function call leaves no dangling function_call message.
C22_NoDanglingFunctionCall ==
    \A i \in DOMAIN log : NoDangling(log[i].messages)

----------------------------------------------------------------------------
\* Every content of the list is a plain string
AllPlain(msgs) == \A i \in DOMAIN msgs : msgs[i].content.blocks = 0

\* Every content of the list is the text in one text block
WrappedOnce(msgs) == \A i \in DOMAIN msgs : msgs[i].content.blocks = 1

\* C23: with the Anthropic backend a vendor call leaves the caller's
\* message list unchanged (every message keeps its plain-string content and
\* the system message stays in the list), so that a second call on the same
\* list sends each message's content wrapped in a text block exactly once.
C23_AnthropicLeavesMessages ==
    [][ (pc = "completion" /\ pc' = "dispatched")
        => /\ messages' = messages
           /\ AllPlain(messages')
           /\ messages'[1].role = "system"
           /\ WrappedOnce(Last(calls').messages)
      ]_vars

----------------------------------------------------------------------------
\* The request has reached DONE or INTERRUPTED: its fragment sequence has
\* ended without an exception
DoneOrInterrupted ==
    /\ pc = "idle"
    /\ log # <<>>
    /\ Last(log).outcome = "returned"

\* C24: every request eventually reaches DONE or INTERRUPTED, given that
\* each vendor stream is finite and each function returns, and the number
\* of function-call recursions within one request is bounded, whatever
\* finish reasons the vendor reports.
C24_RequestTerminates ==
    /\ [](Awaiting => <>DoneOrInterrupted)
    /\ [](Len(stack) <= MaxDepth + 1)

----------------------------------------------------------------------------
\* The model names the first start was configured with
Configured == Precedence(log[1].env)

\* C25: a first start with no config file completes and writes the
\* defaults, and every later start reads back the same MODEL_PRECEDENCE
\* list of model names, so that cfg.model is the first configured model
\* name on every start.
C25_ConfigRoundTrip ==
    (log # <<>> /\ ~log[1].had_file)
    => /\ log[1].outcome = "running"
       /\ cache.exists
       /\ \A i \in DOMAIN log :
             /\ log[i].outcome = "running"
             /\ Get(log[i].cfg, MODEL_PRECEDENCE_KEY) = List(Configured)
             /\ model(log[i].cfg) = Configured[1]

====
